---- MODULE Spec2Model ----
(***************************************************************************)
(* Model of frontend/script.js: the submit handler of the audit form and   *)
(* the formatResults routine.                                              *)
(*                                                                         *)
(* The handler is an async function.  Each invocation is a process with a  *)
(* program counter; the JavaScript event loop runs one invocation at a     *)
(* time until it suspends at an await or returns (variable running).       *)
(* Strings built by the code (markup, error messages) are sequences of     *)
(* text fragments, concatenation is \o.  An optional JSON property is a    *)
(* sequence of length 0 (absent) or 1 (present).                           *)
(***************************************************************************)
EXTENDS Naturals, Sequences, FiniteSets

\* ------------------------------------------------------------------ bounds
MaxSubmits == 2          \* submit events per behaviour
MaxItems == 2            \* longest errors / warnings array of a response

Ids == 1..MaxSubmits

\* ------------------------------------------------------- text of the page
IdleLabel == <<"Run Audit">>
BusyLabel == <<"Running Audit...">>
OtherLabel == <<"Start">>        \* the page markup, not the script, gives the button its first label
Loading == <<"<p>Loading...</p>">>
EmptyHTML == <<>>

\* values of the input field, as sequences of characters
InputValues == {<<>>, <<"a", "\"", "\\">>}

\* --------------------------------------------------------- the environment
Statuses == {200, 299, 300, 500}
NetworkErrors == {<<"Failed to fetch">>}
ParseErrors == {<<"Unexpected token < in JSON at position 0">>}
NullStatusError == <<"Cannot read properties of null (reading 'status')">>
UndefinedErrorsError == <<"Cannot read properties of undefined (reading 'errors')">>

ErrNames == <<"E1", "E2", "E3", "E4">>
WarnNames == <<"W1", "W2", "W3", "W4">>

OptLists(names) == {<<>>} \cup {<<SubSeq(names, 1, n)>> : n \in 0..MaxItems}
DataObjs == [errors : OptLists(ErrNames), warnings : OptLists(WarnNames)]
OptData == {<<>>} \cup {<<d>> : d \in DataObjs}
OptStatus == {<<>>, <<"success">>, <<"error">>}
OptMessage == {<<>>, << <<>> >>, << <<"bad url">> >>}

NullBody == [isNull |-> TRUE, status |-> <<>>, data |-> <<>>, message |-> <<>>]
Bodies == {NullBody} \cup
          [isNull : {FALSE}, status : OptStatus, data : OptData, message : OptMessage]

NoFetch == [state |-> "none", status |-> 0, msg |-> <<>>]
NoJson == [state |-> "none", body |-> NullBody, msg |-> <<>>]

\* ------------------------------------------------------------ pure helpers
Digits == <<"0", "1", "2", "3", "4", "5", "6", "7", "8", "9">>

RECURSIVE DecStr(_)
DecStr(n) == IF n < 10 THEN <<Digits[n + 1]>>
             ELSE DecStr(n \div 10) \o <<Digits[(n % 10) + 1]>>

\* variant of Ok: the upper end of the success range is not tested
OkNoUpperBound(status) == status >= 200

Ok(status) == status >= 200 /\ status <= 299

HttpErrorMessage(status) == <<"HTTP error! Status: ">> \o DecStr(status)

Banner(text) == <<"<div class=\"alert alert-danger\">Error: ">> \o text \o <<"</div>">>

\* variant of AppErrorText: data.message is never used
AppErrorTextIgnoresMessage(body) == <<"Audit failed">>

AppErrorText(body) ==
    IF body.message # <<>> /\ body.message[1] # <<>>
    THEN body.message[1]
    ELSE <<"Audit failed">>

\* JSON.stringify of a string: quotes and backslashes are escaped
EscapeChar(c) == IF c = "\"" \/ c = "\\" THEN <<"\\", c>> ELSE <<c>>

RECURSIVE Escape(_)
Escape(str) == IF str = <<>> THEN <<>> ELSE EscapeChar(Head(str)) \o Escape(Tail(str))

\* variant of JsonStringify: the body is built by plain concatenation
JsonStringifyUnescaped(u) == <<"{\"url\":\"">> \o u \o <<"\"}">>

\* JSON.stringify({ url })
JsonStringify(u) == <<"{\"url\":\"">> \o Escape(u) \o <<"\"}">>

Endpoint == "https://seoauditai.onrender.com/audit"
NoRequest == [method |-> "", endpoint |-> "", contentType |-> "", body |-> <<>>]
Request(u) == [method |-> "POST", endpoint |-> Endpoint,
               contentType |-> "application/json", body |-> JsonStringify(u)]

Heading == <<"<h3>Audit Results</h3>">>
NoIssues == <<"<div class=\"alert alert-success\">No issues found!</div>">>
ListClose == <<"</ul>">>

Item(entry) == <<"<li class=\"list-group-item\">", entry, "</li>">>

\* variant of Items: the entries are prepended, so they come out in reverse order
RECURSIVE ItemsReversed(_)
ItemsReversed(list) ==
    IF list = <<>> THEN <<>> ELSE ItemsReversed(Tail(list)) \o Item(Head(list))

RECURSIVE Items(_)
Items(list) == IF list = <<>> THEN <<>> ELSE Item(Head(list)) \o Items(Tail(list))

Section(title, list) ==
    <<"<h4>", title, "</h4><ul class=\"list-group mb-3\">">>
        \o Items(list) \o ListClose

Truthy(opt) == opt # <<>>
NonEmpty(opt) == Truthy(opt) /\ Len(opt[1]) # 0

NoIssuesShown(data) == ~Truthy(data.errors) /\ ~Truthy(data.warnings)

formatResults(data) ==
    Heading
    \o (IF NonEmpty(data.errors) THEN Section("Errors", data.errors[1]) ELSE <<>>)
    \o (IF NonEmpty(data.warnings) THEN Section("Warnings", data.warnings[1]) ELSE <<>>)
    \o (IF NoIssuesShown(data) THEN NoIssues ELSE <<>>)

\* -------------------------------------------------------------------- state
VARIABLES inputValue, disabled, label, resultHTML,
          running, nSubmits, requests,
          pc, url, labelBefore, fetchRes, jsonRes, err, fmtCalled,
          request, lastSettled

vars == <<inputValue, disabled, label, resultHTML, running, nSubmits, requests,
          pc, url, labelBefore, fetchRes, jsonRes, err, fmtCalled,
          request, lastSettled>>

Init ==
    /\ inputValue \in InputValues
    /\ disabled = FALSE
    /\ label \in {IdleLabel, OtherLabel}
    /\ resultHTML = EmptyHTML
    /\ running = 0
    /\ nSubmits = 0
    /\ requests = 0
    /\ pc = [i \in Ids |-> "idle"]
    /\ url = [i \in Ids |-> <<>>]
    /\ labelBefore = [i \in Ids |-> <<>>]
    /\ fetchRes = [i \in Ids |-> NoFetch]
    /\ jsonRes = [i \in Ids |-> NoJson]
    /\ err = [i \in Ids |-> <<>>]
    /\ fmtCalled = [i \in Ids |-> FALSE]
    /\ request = [i \in Ids |-> NoRequest]
    /\ lastSettled = 0

\* ------------------------------------------------------------ environment
EditInput(v) ==
    /\ running = 0
    /\ v # inputValue
    /\ inputValue' = v
    /\ UNCHANGED <<disabled, label, resultHTML, running, nSubmits, requests,
                   pc, url, labelBefore, fetchRes, jsonRes, err, fmtCalled>>
    /\ UNCHANGED <<request, lastSettled>>

\* lines 1-5: the event is dispatched, the handler reads the field
SubmitEvent ==
    /\ running = 0
    /\ nSubmits < MaxSubmits
    /\ LET i == nSubmits + 1 IN
         /\ nSubmits' = i
         /\ running' = i
         /\ pc' = [pc EXCEPT ![i] = "l8"]
         /\ url' = [url EXCEPT ![i] = inputValue]
         /\ labelBefore' = [labelBefore EXCEPT ![i] = label]
    /\ UNCHANGED <<inputValue, disabled, label, resultHTML, requests,
                   fetchRes, jsonRes, err, fmtCalled>>
    /\ UNCHANGED <<request, lastSettled>>

\* the browser submits a form only through an enabled submit button
Submit == ~disabled /\ SubmitEvent

\* invocation j has a settled promise and its continuation has not run yet
Ready(j) ==
    \/ pc[j] = "awaitFetch" /\ fetchRes[j].state \in {"resolved", "rejected"}
    \/ pc[j] = "awaitJson" /\ jsonRes[j].state \in {"resolved", "rejected"}

\* a promise is settled by a task of its own; the continuation it makes
\* runnable is a microtask that runs before the next task starts
TaskMayStart == running = 0 /\ \A j \in Ids : ~Ready(j)

FetchSettle(i) ==
    /\ TaskMayStart
    /\ pc[i] = "awaitFetch"
    /\ fetchRes[i].state = "pending"
    /\ \/ \E s \in Statuses :
            fetchRes' = [fetchRes EXCEPT ![i] =
                            [state |-> "resolved", status |-> s, msg |-> <<>>]]
       \/ \E m \in NetworkErrors :
            fetchRes' = [fetchRes EXCEPT ![i] =
                            [state |-> "rejected", status |-> 0, msg |-> m]]
    /\ UNCHANGED <<inputValue, disabled, label, resultHTML, running, nSubmits,
                   requests, pc, url, labelBefore, jsonRes, err, fmtCalled>>
    /\ lastSettled' = i
    /\ UNCHANGED request

JsonSettleFrom(i, bodies) ==
    /\ TaskMayStart
    /\ pc[i] = "awaitJson"
    /\ jsonRes[i].state = "pending"
    /\ \/ \E b \in bodies :
            jsonRes' = [jsonRes EXCEPT ![i] =
                           [state |-> "resolved", body |-> b, msg |-> <<>>]]
       \/ \E m \in ParseErrors :
            jsonRes' = [jsonRes EXCEPT ![i] =
                           [state |-> "rejected", body |-> NullBody, msg |-> m]]
    /\ UNCHANGED <<inputValue, disabled, label, resultHTML, running, nSubmits,
                   requests, pc, url, labelBefore, fetchRes, err, fmtCalled>>
    /\ lastSettled' = i
    /\ UNCHANGED request

JsonSettle(i) == JsonSettleFrom(i, Bodies)

\* ---------------------------------------------------------------- handler
\* variant of ShowProgress: line 10 is missing
ShowProgressNoPlaceholder(i) ==
    /\ running = i
    /\ pc[i] = "l8"
    /\ disabled' = TRUE
    /\ label' = BusyLabel
    /\ pc' = [pc EXCEPT ![i] = "l13"]
    /\ UNCHANGED <<inputValue, resultHTML, running, nSubmits, requests, url,
                   labelBefore, fetchRes, jsonRes, err, fmtCalled>>
    /\ UNCHANGED <<request, lastSettled>>

\* variant of ShowProgress: line 8 is missing
ShowProgressNoDisable(i) ==
    /\ running = i
    /\ pc[i] = "l8"
    /\ label' = BusyLabel
    /\ resultHTML' = Loading
    /\ pc' = [pc EXCEPT ![i] = "l13"]
    /\ UNCHANGED <<inputValue, disabled, running, nSubmits, requests, url,
                   labelBefore, fetchRes, jsonRes, err, fmtCalled>>
    /\ UNCHANGED <<request, lastSettled>>

\* lines 8-10
ShowProgress(i) ==
    /\ running = i
    /\ pc[i] = "l8"
    /\ disabled' = TRUE
    /\ label' = BusyLabel
    /\ resultHTML' = Loading
    /\ pc' = [pc EXCEPT ![i] = "l13"]
    /\ UNCHANGED <<inputValue, running, nSubmits, requests, url, labelBefore,
                   fetchRes, jsonRes, err, fmtCalled>>
    /\ UNCHANGED <<request, lastSettled>>

\* variant of IssueFetch: fetch is not awaited, the cleanup runs at once
IssueFetchThenCleanup(i) ==
    /\ running = i
    /\ pc[i] = "l13"
    /\ requests' = requests + 1
    /\ fetchRes' = [fetchRes EXCEPT ![i] =
                       [state |-> "pending", status |-> 0, msg |-> <<>>]]
    /\ pc' = [pc EXCEPT ![i] = "awaitFetch"]
    /\ running' = 0
    /\ disabled' = FALSE
    /\ label' = IdleLabel
    /\ UNCHANGED <<inputValue, resultHTML, nSubmits, url,
                   labelBefore, jsonRes, err, fmtCalled>>
    /\ request' = [request EXCEPT ![i] = Request(url[i])]
    /\ UNCHANGED lastSettled

\* lines 13-19: the request is issued and the handler suspends
IssueFetch(i) ==
    /\ running = i
    /\ pc[i] = "l13"
    /\ requests' = requests + 1
    /\ fetchRes' = [fetchRes EXCEPT ![i] =
                       [state |-> "pending", status |-> 0, msg |-> <<>>]]
    /\ pc' = [pc EXCEPT ![i] = "awaitFetch"]
    /\ running' = 0
    /\ UNCHANGED <<inputValue, disabled, label, resultHTML, nSubmits, url,
                   labelBefore, jsonRes, err, fmtCalled>>
    /\ request' = [request EXCEPT ![i] = Request(url[i])]
    /\ UNCHANGED lastSettled

\* lines 13, 21-25: the handler resumes with the settled fetch
ResumeFetch(i) ==
    /\ running = 0
    /\ pc[i] = "awaitFetch"
    /\ fetchRes[i].state \in {"resolved", "rejected"}
    /\ IF fetchRes[i].state = "rejected"
       THEN /\ err' = [err EXCEPT ![i] = fetchRes[i].msg]
            /\ pc' = [pc EXCEPT ![i] = "catch"]
            /\ running' = i
            /\ UNCHANGED jsonRes
       ELSE IF ~Ok(fetchRes[i].status)
       THEN /\ err' = [err EXCEPT ![i] = HttpErrorMessage(fetchRes[i].status)]
            /\ pc' = [pc EXCEPT ![i] = "catch"]
            /\ running' = i
            /\ UNCHANGED jsonRes
       ELSE /\ jsonRes' = [jsonRes EXCEPT ![i] =
                              [state |-> "pending", body |-> NullBody, msg |-> <<>>]]
            /\ pc' = [pc EXCEPT ![i] = "awaitJson"]
            /\ running' = 0
            /\ UNCHANGED err
    /\ UNCHANGED <<inputValue, disabled, label, resultHTML, nSubmits, requests,
                   url, labelBefore, fetchRes, fmtCalled>>
    /\ UNCHANGED <<request, lastSettled>>

\* line 25: the handler resumes with the settled body
ResumeJson(i) ==
    /\ running = 0
    /\ pc[i] = "awaitJson"
    /\ jsonRes[i].state \in {"resolved", "rejected"}
    /\ running' = i
    /\ IF jsonRes[i].state = "rejected"
       THEN /\ err' = [err EXCEPT ![i] = jsonRes[i].msg]
            /\ pc' = [pc EXCEPT ![i] = "catch"]
       ELSE /\ pc' = [pc EXCEPT ![i] = "l27"]
            /\ UNCHANGED err
    /\ UNCHANGED <<inputValue, disabled, label, resultHTML, nSubmits, requests,
                   url, labelBefore, fetchRes, jsonRes, fmtCalled>>
    /\ UNCHANGED <<request, lastSettled>>

\* lines 27-31
Render(i) ==
    /\ running = i
    /\ pc[i] = "l27"
    /\ LET body == jsonRes[i].body IN
         IF body.isNull
         THEN /\ err' = [err EXCEPT ![i] = NullStatusError]
              /\ pc' = [pc EXCEPT ![i] = "catch"]
              /\ UNCHANGED <<resultHTML, fmtCalled>>
         ELSE IF body.status = <<"success">>
         THEN /\ fmtCalled' = [fmtCalled EXCEPT ![i] = TRUE]
              /\ IF body.data = <<>>
                 THEN /\ err' = [err EXCEPT ![i] = UndefinedErrorsError]
                      /\ pc' = [pc EXCEPT ![i] = "catch"]
                      /\ UNCHANGED resultHTML
                 ELSE /\ resultHTML' = formatResults(body.data[1])
                      /\ pc' = [pc EXCEPT ![i] = "finally"]
                      /\ UNCHANGED err
         ELSE /\ resultHTML' = Banner(AppErrorText(body))
              /\ pc' = [pc EXCEPT ![i] = "finally"]
              /\ UNCHANGED <<err, fmtCalled>>
    /\ UNCHANGED <<inputValue, disabled, label, running, nSubmits, requests,
                   url, labelBefore, fetchRes, jsonRes>>
    /\ UNCHANGED <<request, lastSettled>>

\* variant of Catch: the cleanup sits at the end of the try block, not in finally
CatchWithoutCleanup(i) ==
    /\ running = i
    /\ pc[i] = "catch"
    /\ resultHTML' = Banner(err[i])
    /\ pc' = [pc EXCEPT ![i] = "done"]
    /\ running' = 0
    /\ url' = [url EXCEPT ![i] = <<>>]
    /\ fetchRes' = [fetchRes EXCEPT ![i] = NoFetch]
    /\ jsonRes' = [jsonRes EXCEPT ![i] = NoJson]
    /\ err' = [err EXCEPT ![i] = <<>>]
    /\ fmtCalled' = [fmtCalled EXCEPT ![i] = FALSE]
    /\ UNCHANGED <<inputValue, disabled, label, nSubmits, requests, labelBefore>>
    /\ request' = [request EXCEPT ![i] = NoRequest]
    /\ UNCHANGED lastSettled

\* variant of Catch: a fixed text is rendered instead of error.message
CatchGenericText(i) ==
    /\ running = i
    /\ pc[i] = "catch"
    /\ resultHTML' = Banner(<<"Audit failed">>)
    /\ pc' = [pc EXCEPT ![i] = "finally"]
    /\ UNCHANGED <<inputValue, disabled, label, running, nSubmits, requests,
                   url, labelBefore, fetchRes, jsonRes, err, fmtCalled>>
    /\ UNCHANGED <<request, lastSettled>>

\* variant of Catch: the request is sent once more after a failure
CatchRetries(i) ==
    /\ running = i
    /\ pc[i] = "catch"
    /\ resultHTML' = Banner(err[i])
    /\ requests' = requests + 1
    /\ pc' = [pc EXCEPT ![i] = "finally"]
    /\ UNCHANGED <<inputValue, disabled, label, running, nSubmits,
                   url, labelBefore, fetchRes, jsonRes, err, fmtCalled>>
    /\ UNCHANGED <<request, lastSettled>>

\* variant of Catch: the error is dropped, nothing is rendered
CatchOnlyLogs(i) ==
    /\ running = i
    /\ pc[i] = "catch"
    /\ pc' = [pc EXCEPT ![i] = "finally"]
    /\ UNCHANGED <<inputValue, disabled, label, resultHTML, running, nSubmits,
                   requests, url, labelBefore, fetchRes, jsonRes, err, fmtCalled>>
    /\ UNCHANGED <<request, lastSettled>>

\* variant of Catch: the banner of a submission that is not the newest is dropped
CatchOnlyNewest(i) ==
    /\ running = i
    /\ pc[i] = "catch"
    /\ resultHTML' = IF i = nSubmits THEN Banner(err[i]) ELSE resultHTML
    /\ pc' = [pc EXCEPT ![i] = "finally"]
    /\ UNCHANGED <<inputValue, disabled, label, running, nSubmits, requests,
                   url, labelBefore, fetchRes, jsonRes, err, fmtCalled>>
    /\ UNCHANGED <<request, lastSettled>>

\* lines 32-33
Catch(i) ==
    /\ running = i
    /\ pc[i] = "catch"
    /\ resultHTML' = Banner(err[i])
    /\ pc' = [pc EXCEPT ![i] = "finally"]
    /\ UNCHANGED <<inputValue, disabled, label, running, nSubmits, requests,
                   url, labelBefore, fetchRes, jsonRes, err, fmtCalled>>
    /\ UNCHANGED <<request, lastSettled>>

\* variant of Finally: line 36 is missing
FinallyKeepsLabel(i) ==
    /\ running = i
    /\ pc[i] = "finally"
    /\ disabled' = FALSE
    /\ pc' = [pc EXCEPT ![i] = "done"]
    /\ running' = 0
    /\ url' = [url EXCEPT ![i] = <<>>]
    /\ fetchRes' = [fetchRes EXCEPT ![i] = NoFetch]
    /\ jsonRes' = [jsonRes EXCEPT ![i] = NoJson]
    /\ err' = [err EXCEPT ![i] = <<>>]
    /\ fmtCalled' = [fmtCalled EXCEPT ![i] = FALSE]
    /\ UNCHANGED <<inputValue, label, resultHTML, nSubmits, requests, labelBefore>>
    /\ request' = [request EXCEPT ![i] = NoRequest]
    /\ UNCHANGED lastSettled

\* lines 34-38: cleanup, then the invocation returns and its frame is gone
Finally(i) ==
    /\ running = i
    /\ pc[i] = "finally"
    /\ disabled' = FALSE
    /\ label' = IdleLabel
    /\ pc' = [pc EXCEPT ![i] = "done"]
    /\ running' = 0
    /\ url' = [url EXCEPT ![i] = <<>>]
    /\ fetchRes' = [fetchRes EXCEPT ![i] = NoFetch]
    /\ jsonRes' = [jsonRes EXCEPT ![i] = NoJson]
    /\ err' = [err EXCEPT ![i] = <<>>]
    /\ fmtCalled' = [fmtCalled EXCEPT ![i] = FALSE]
    /\ UNCHANGED <<inputValue, resultHTML, nSubmits, requests, labelBefore>>
    /\ request' = [request EXCEPT ![i] = NoRequest]
    /\ UNCHANGED lastSettled

Step(i) ==
    \/ ShowProgress(i)
    \/ IssueFetch(i)
    \/ ResumeFetch(i)
    \/ ResumeJson(i)
    \/ Render(i)
    \/ Catch(i)
    \/ Finally(i)

Next ==
    \/ \E v \in InputValues : EditInput(v)
    \/ Submit
    \/ \E i \in Ids : FetchSettle(i)
    \/ \E i \in Ids : JsonSettle(i)
    \/ \E i \in Ids : Step(i)

Spec == Init /\ [][Next]_vars

\* a submit event dispatched by script while the control is disabled
\* (form.requestSubmit(), dispatchEvent): the handler has no guard of its own
ProgrammaticSubmit == disabled /\ SubmitEvent

\* the responses used where invocations overlap: one of each kind of outcome
OverlapBodies ==
    {b \in Bodies :
        /\ b.message \in {<<>>, << <<"bad url">> >>}
        /\ b.status = <<"success">> => b.message = <<>>
        /\ b.status # <<"success">> => b.data = <<>>
        /\ b.data # <<>> =>
              /\ b.data[1].errors \in {<<>>, << <<"E1">> >>}
              /\ b.data[1].warnings = <<>>}

JsonSettleOverlap(i) == JsonSettleFrom(i, OverlapBodies)

OverlapNext ==
    \/ \E v \in InputValues : EditInput(v)
    \/ Submit
    \/ ProgrammaticSubmit
    \/ \E i \in Ids : FetchSettle(i)
    \/ \E i \in Ids : JsonSettleOverlap(i)
    \/ \E i \in Ids : Step(i)

OverlapSpec == Init /\ [][OverlapNext]_vars

\* the event loop always runs a runnable continuation; the network may never answer
LiveSpec == Spec /\ \A i \in Ids : WF_vars(Step(i))


\* ------------------------------------------------------ derived predicates
InProgressUI == disabled /\ label = BusyLabel /\ resultHTML = Loading

Contains(h, s) ==
    \E k \in 0..Len(h) : k + Len(s) <= Len(h) /\ SubSeq(h, k + 1, k + Len(s)) = s

IsBanner(h) ==
    /\ Len(h) >= 2
    /\ h[1] = "<div class=\"alert alert-danger\">Error: "
    /\ h[Len(h)] = "</div>"

IsResults(h) == Len(h) >= 1 /\ h[1] = Heading[1]

HttpFailed(i) == fetchRes[i].state = "resolved" /\ fetchRes[i].status \notin 200..299
NetworkFailed(i) == fetchRes[i].state = "rejected"
ParseFailed(i) == jsonRes[i].state = "rejected"
Parsed(i) == jsonRes[i].state = "resolved"
ParsedObject(i) == Parsed(i) /\ ~jsonRes[i].body.isNull
ParsedSuccess(i) == ParsedObject(i) /\ jsonRes[i].body.status = <<"success">>
ParsedFailure(i) == ParsedObject(i) /\ jsonRes[i].body.status # <<"success">>

\* the request of invocation i has settled: there is nothing left to wait for
Settled(i) ==
    \/ pc[i] = "awaitFetch" /\ (NetworkFailed(i) \/ HttpFailed(i))
    \/ pc[i] = "awaitJson" /\ (Parsed(i) \/ ParseFailed(i))

Active == {i \in Ids : pc[i] \notin {"idle", "done"}}

\* ------------------------------------------------------------------ claims

\* C1: every submission whose request settles (fetch rejected, non-success
\* status, or body parsing resolved or rejected) eventually returns with the
\* submit control re-enabled, whatever the outcome, a formatting exception
\* included.
C1_EventuallyReenabled ==
    \A i \in Ids : Settled(i) ~> (pc[i] = "done" /\ ~disabled)

C1_Witness ==
    \E i \in Ids : pc[i] = "done" /\ ~disabled /\ label = IdleLabel
                   /\ resultHTML = Banner(UndefinedErrorsError)

\* C2: whenever an invocation is about to issue the request (line 13) or about
\* to render an outcome (lines 27-31, line 33), the control is disabled, the
\* label is the in-progress text and the container shows the placeholder.
C2_ProgressShownFirst ==
    \A i \in Ids : pc[i] \in {"l13", "l27", "catch"} => InProgressUI

C2_Witness ==
    \E i \in Ids : pc[i] = "l27" /\ InProgressUI /\ requests = i

\* C3: with submit events delivered only while the control is enabled, at most
\* one invocation is between its start and its cleanup, so at most one request
\* is in flight.
C3_SingleRequestInFlight ==
    /\ Cardinality(Active) <= 1
    /\ Cardinality({i \in Ids : fetchRes[i].state # "none"}) <= 1

C3_Witness ==
    /\ nSubmits = 2
    /\ pc[1] = "done"
    /\ pc[2] = "awaitFetch"
    /\ fetchRes[2].state = "pending"
    /\ disabled

\* C4: for a success response whose data has neither a non-empty errors nor a
\* non-empty warnings array, the container shows the heading followed by the
\* single "No issues found!" indicator and nothing else.
C4_NoIssuesIndicator ==
    \A i \in Ids :
        (/\ pc[i] = "finally"
         /\ ParsedSuccess(i)
         /\ jsonRes[i].body.data # <<>>
         /\ ~NonEmpty(jsonRes[i].body.data[1].errors)
         /\ ~NonEmpty(jsonRes[i].body.data[1].warnings))
        => resultHTML = Heading \o NoIssues

\* C5: for a parsed response whose status is 'success', the container shows
\* results markup and not a failure banner once the outcome is rendered, also
\* when data is absent.
C5_SuccessShowsResults ==
    \A i \in Ids :
        (pc[i] = "finally" /\ ParsedSuccess(i))
        => (IsResults(resultHTML) /\ ~IsBanner(resultHTML))

\* C6: after a response with a status outside 200..299 the body is never
\* parsed and the formatter never called, and the outcome rendered is the
\* failure banner whose text holds the decimal digits of the status.
C6_HttpErrorBanner ==
    \A i \in Ids :
        HttpFailed(i) =>
            /\ jsonRes[i].state = "none"
            /\ ~fmtCalled[i]
            /\ pc[i] \in {"awaitFetch", "catch", "finally"}
            /\ pc[i] = "finally" =>
                  /\ IsBanner(resultHTML)
                  /\ Contains(resultHTML, DecStr(fetchRes[i].status))
                  /\ fetchRes[i].status = 500 => Contains(resultHTML, <<"5", "0", "0">>)

C6_Witness ==
    \E i \in Ids :
        /\ pc[i] = "finally"
        /\ fetchRes[i].state = "resolved"
        /\ fetchRes[i].status = 500
        /\ resultHTML = Banner(<<"HTTP error! Status: ", "5", "0", "0">>)

\* C7: after a parsed object response whose status is not 'success', the
\* outcome rendered is a failure banner that contains the message when one is
\* present and is the 'Audit failed' banner when none is; the formatter was
\* not called and no results markup is shown.
C7_ApplicationErrorBanner ==
    \A i \in Ids :
        (pc[i] = "finally" /\ ParsedFailure(i)) =>
            /\ IsBanner(resultHTML)
            /\ ~IsResults(resultHTML)
            /\ ~fmtCalled[i]
            /\ jsonRes[i].body.message # <<>>
                  => Contains(resultHTML, jsonRes[i].body.message[1])
            /\ jsonRes[i].body.message = <<>>
                  => resultHTML = Banner(<<"Audit failed">>)

C7_Witness ==
    \E i \in Ids :
        /\ pc[i] = "finally"
        /\ ParsedFailure(i)
        /\ jsonRes[i].body.message = << <<"bad url">> >>
        /\ Contains(resultHTML, <<"bad url">>)

\* C8: after a network failure or a body that is not valid JSON, the outcome
\* rendered is the failure banner with the thrown error's message (not the
\* placeholder, not results markup), and the step that follows re-enables the
\* control and leaves the banner in place.
C8_ThrownErrorBanner ==
    [][\A i \in Ids :
         (pc[i] = "finally" /\ (NetworkFailed(i) \/ ParseFailed(i))) =>
            /\ resultHTML = Banner(IF NetworkFailed(i) THEN fetchRes[i].msg
                                                       ELSE jsonRes[i].msg)
            /\ resultHTML # Loading
            /\ ~IsResults(resultHTML)
            /\ pc'[i] # pc[i] =>
                  (pc'[i] = "done" /\ ~disabled' /\ resultHTML' = resultHTML)]_vars

C8_Witness ==
    \E i \in Ids :
        /\ pc[i] = "finally"
        /\ ParseFailed(i)
        /\ IsBanner(resultHTML)
        /\ disabled

C10_StaysInProgress ==
    \A i \in Ids : pc[i] \in {"awaitFetch", "awaitJson"} => InProgressUI

C10_Witness ==
    \E i \in Ids :
        /\ pc[i] = "awaitJson"
        /\ jsonRes[i].state = "pending"
        /\ InProgressUI
        /\ inputValue # url[i]

\* the entries of the list items of a markup, and the titles of its sections
RECURSIVE Entries(_)
Entries(h) ==
    IF Len(h) < 2 THEN <<>>
    ELSE IF Head(h) = "<li class=\"list-group-item\">"
         THEN <<h[2]>> \o Entries(Tail(Tail(h)))
         ELSE Entries(Tail(h))

RECURSIVE Titles(_)
Titles(h) ==
    IF Len(h) < 2 THEN <<>>
    ELSE IF Head(h) = "<h4>"
         THEN <<h[2]>> \o Titles(Tail(Tail(h)))
         ELSE Titles(Tail(h))

ListOf(opt) == IF opt = <<>> THEN <<>> ELSE opt[1]

\* C11: for a success response whose data has a non-empty errors and/or
\* warnings array, the markup has one list item per errors entry in array
\* order followed by one per warnings entry in array order, a section title
\* for exactly the non-empty arrays, and every errors item before the
\* Warnings title.
C11_ItemsInOrder ==
    \A i \in Ids :
        (/\ pc[i] = "finally"
         /\ ParsedSuccess(i)
         /\ jsonRes[i].body.data # <<>>
         /\ \/ ListOf(jsonRes[i].body.data[1].errors) # <<>>
            \/ ListOf(jsonRes[i].body.data[1].warnings) # <<>>)
        => LET es == ListOf(jsonRes[i].body.data[1].errors)
               ws == ListOf(jsonRes[i].body.data[1].warnings)
           IN /\ Entries(resultHTML) = es \o ws
              /\ Titles(resultHTML) = (IF es # <<>> THEN <<"Errors">> ELSE <<>>)
                                      \o (IF ws # <<>> THEN <<"Warnings">> ELSE <<>>)
              /\ \A k \in 1..Len(resultHTML) :
                    (resultHTML[k] = "Warnings" /\ k > 1 /\ resultHTML[k - 1] = "<h4>")
                    => /\ Entries(SubSeq(resultHTML, 1, k - 1)) = es
                       /\ Entries(SubSeq(resultHTML, k, Len(resultHTML))) = ws

C11_Witness ==
    \E i \in Ids :
        /\ pc[i] = "finally"
        /\ ParsedSuccess(i)
        /\ jsonRes[i].body.data # <<>>
        /\ jsonRes[i].body.data[1].errors = << <<"E1">> >>
        /\ jsonRes[i].body.data[1].warnings = << <<"W1", "W2">> >>
        /\ Entries(resultHTML) = <<"E1", "W1", "W2">>

\* invocations whose request has been issued and whose frame is still live
Issued == {i \in Ids : pc[i] \in {"awaitFetch", "awaitJson", "l27", "catch", "finally"}}

\* C12: the number of requests issued is the number of invocations that have
\* passed line 13, whatever their outcome, and equals the number of submit
\* events whenever no invocation is running; each request is a POST.
C12_OneRequestPerSubmit ==
    /\ requests = Cardinality({i \in Ids : pc[i] \notin {"idle", "l8", "l13"}})
    /\ running = 0 => requests = nSubmits
    /\ \A i \in Issued : request[i].method = "POST" /\ request[i].endpoint = Endpoint

C12_Witness ==
    /\ nSubmits = 2
    /\ requests = 2
    /\ pc[1] = "done"
    /\ pc[2] = "finally"
    /\ IsBanner(resultHTML)

\* the url a JSON reader finds in a request body
RECURSIVE Unescape(_)
Unescape(t) ==
    IF t = <<>> THEN <<>>
    ELSE IF Head(t) = "\\"
         THEN IF Len(t) >= 2 THEN <<t[2]>> \o Unescape(Tail(Tail(t)))
                             ELSE <<"<invalid>">>
         ELSE IF Head(t) = "\"" THEN <<"<invalid>">>
         ELSE <<Head(t)>> \o Unescape(Tail(t))

BodyUrl(text) ==
    IF Len(text) >= 2 /\ text[1] = "{\"url\":\"" /\ text[Len(text)] = "\"}"
    THEN Unescape(SubSeq(text, 2, Len(text) - 1))
    ELSE <<"<invalid>">>

\* C13: an invocation reads the field when the event is dispatched; the body
\* of the request it issues is JSON whose url is that value, for every value
\* (the empty string and values with quotes or backslashes included), and the
\* request stays as issued whatever happens to the field afterwards.
C13_BodyIsFieldValue ==
    /\ [](\A i \in Issued :
            /\ request[i] # NoRequest
            /\ request[i].contentType = "application/json"
            /\ BodyUrl(request[i].body) = url[i])
    /\ [][/\ \A i \in Ids : (pc[i] = "idle" /\ pc'[i] # "idle") => url'[i] = inputValue
          /\ \A i \in Issued : pc'[i] # "done" =>
                (request'[i] = request[i] /\ url'[i] = url[i])]_vars

C13_Witness ==
    \E i \in Ids :
        /\ pc[i] = "awaitFetch"
        /\ url[i] = <<"a", "\"", "\\">>
        /\ inputValue = <<>>
        /\ BodyUrl(request[i].body) = <<"a", "\"", "\\">>

\* C15: the container changes either to the placeholder or, while the control
\* is disabled, from the placeholder to an outcome by the invocation that then
\* reaches its cleanup; at cleanup the outcome is in place and the control
\* still disabled; the control is never enabled while the placeholder shows.
C15_OutcomeBeforeCleanup ==
    /\ [](~(~disabled /\ resultHTML = Loading))
    /\ [](\A i \in Ids : pc[i] = "finally" => (disabled /\ resultHTML # Loading))
    /\ [][resultHTML' # resultHTML =>
            \/ resultHTML' = Loading
            \/ /\ resultHTML = Loading
               /\ disabled /\ disabled'
               /\ \E i \in Ids : pc[i] \in {"l27", "catch"} /\ pc'[i] = "finally"]_vars

C15_Witness ==
    \E i \in Ids :
        /\ pc[i] = "finally"
        /\ err[i] # <<>>
        /\ disabled
        /\ IsBanner(resultHTML)

\* the markup in h is the outcome of the request of invocation i
OutcomeMatches(i, h) ==
    /\ NetworkFailed(i) => h = Banner(fetchRes[i].msg)
    /\ HttpFailed(i) => (IsBanner(h) /\ Contains(h, DecStr(fetchRes[i].status)))
    /\ ParseFailed(i) => h = Banner(jsonRes[i].msg)
    /\ ParsedFailure(i) =>
          /\ IsBanner(h)
          /\ jsonRes[i].body.message # <<>> => Contains(h, jsonRes[i].body.message[1])
    /\ (ParsedSuccess(i) /\ jsonRes[i].body.data # <<>>) =>
          /\ IsResults(h)
          /\ Entries(h) = ListOf(jsonRes[i].body.data[1].errors)
                          \o ListOf(jsonRes[i].body.data[1].warnings)
    /\ (Parsed(i) /\ (jsonRes[i].body.isNull
                      \/ (ParsedSuccess(i) /\ jsonRes[i].body.data = <<>>))) =>
          (IsBanner(h) /\ h = Banner(err[i]))

AllDone == nSubmits >= 1 /\ Active = {}

\* C16: with submit events also delivered while the control is disabled, every
\* invocation issues its own request; an invocation renders when its request
\* is the one that settled last, and what it renders is that request's
\* outcome; nothing else replaces an outcome except a new placeholder; when
\* every invocation has returned the control is enabled, the label is
\* 'Run Audit' and the container holds an outcome.
C16_LastSettledWins ==
    /\ [](/\ \A i \in Issued : request[i] = Request(url[i])
          /\ running = 0 => requests = nSubmits
          /\ \A i \in Ids : pc[i] = "finally" =>
                (i = lastSettled /\ OutcomeMatches(i, resultHTML))
          /\ AllDone => /\ ~disabled
                        /\ label = IdleLabel
                        /\ resultHTML \notin {Loading, EmptyHTML}
                        /\ pc[lastSettled] = "done")
    /\ [][(resultHTML' # resultHTML /\ resultHTML' # Loading) =>
              (lastSettled' = lastSettled /\ pc'[lastSettled] = "finally")]_vars

C16_Witness ==
    /\ nSubmits = 2
    /\ pc[2] = "done"
    /\ pc[1] = "finally"
    /\ lastSettled = 1
    /\ NetworkFailed(1)
    /\ resultHTML = Banner(<<"Failed to fetch">>)

====
